---- MODULE Spec2Model ----
(***************************************************************************)
(* A model of the ledger (block.rs, blockchain.rs), the UTXO index         *)
(* (utxoset.rs), the transaction engine (transaction.rs, tx.rs) and the    *)
(* command-line operations (cli.rs) that drive them.                       *)
(*                                                                         *)
(* Strings of the program that are hashes are sequences; the empty string  *)
(* is << >>.  SHA-256 is modelled as an injective function: a block digest *)
(* is its first TARGET_HEXT hex characters (numbers 0..15, pseudo-random   *)
(* in the hashed content) followed by one element that stands for the      *)
(* remaining characters and determines the content.                        *)
(***************************************************************************)
EXTENDS Integers, Sequences, FiniteSets, TLC

\* ------------------------------------------------------------------ bounds
MaxBlocks == 3
MaxClock == 1
MaxFaults == 1
MaxInjects == 1

\* ------------------------------------------------------- program constants
TARGET_HEXT == 4
Reward == 100
GENESIS_COINBASE_DATA == "The Times 03/Jan/2009"

Addresses == {"A", "B"}
Amounts == {40, 100}
PrivateKeys == {"skA"}

\* ------------------------------------------------------------ map helpers
EmptyMap == << >>

Put(m, k, v) == [x \in (DOMAIN m) \cup {k} |-> IF x = k THEN v ELSE m[x]]

Del(m, k) == [x \in (DOMAIN m) \ {k} |-> m[x]]

\* All orders in which the elements of S can be visited.
RECURSIVE Orders(_)
Orders(S) ==
  IF S = {} THEN { << >> }
  ELSE UNION { { <<x>> \o o : o \in Orders(S \ {x}) } : x \in S }

\* ------------------------------------------------------------------ tx.rs
TXInput(txid, vout, signature, pub_key) ==
  [txid |-> txid, vout |-> vout, signature |-> signature, pub_key |-> pub_key]

TXOutput(value, pub_key_hash) == [value |-> value, pub_key_hash |-> pub_key_hash]

can_be_unlock_with(out, unlocking_data) == out.pub_key_hash = unlocking_data

\* ---------------------------------------------------------- transaction.rs
NoTx == [id |-> << >>, vin |-> << >>, vout |-> << >>]

\* Sha256 of the bincode serialization of a value: injective.
Sha256(data) == <<"sha256", data>>

\* set_id serializes the whole transaction, whose id is still the empty string.
set_id(tx) == [tx EXCEPT !.id = Sha256([tx EXCEPT !.id = << >>])]

RewardMemo(to) == IF to = "A" THEN "Reward to 'A'" ELSE "Reward to 'B'"

new_coinbase(to, data) ==
  LET memo == IF data = "" THEN RewardMemo(to) ELSE data
  IN  set_id([id |-> << >>,
              vin |-> << TXInput(<< >>, -1, << >>, memo) >>,
              vout |-> << TXOutput(Reward, to) >>])

is_coinbase(tx) ==
  /\ Len(tx.vin) = 1
  /\ tx.vin[1].txid = << >>
  /\ tx.vin[1].vout = -1

\* The inputs new_UTXO builds from the selection (txid, [output index]) pairs.
RECURSIVE SpendInputs(_, _)
SpendInputs(sel, from) ==
  IF sel = << >> THEN << >>
  ELSE [i \in 1..Len(Head(sel)[2]) |->
          TXInput(Head(sel)[1], Head(sel)[2][i], << >>, from)]
       \o SpendInputs(Tail(sel), from)

new_UTXO_AlwaysChange(from, to, amount, acc_v) ==
  IF acc_v.acc < amount
  THEN [status |-> "InsufficientFunds", balance |-> acc_v.acc, tx |-> NoTx]
  ELSE [status |-> "ok", balance |-> acc_v.acc,
        tx |-> set_id([id |-> << >>,
                       vin |-> SpendInputs(acc_v.outs, from),
                       vout |-> << TXOutput(amount, to),
                                   TXOutput(acc_v.acc - amount, from) >>])]

new_UTXO_NoCheck(from, to, amount, acc_v) ==
  [status |-> "ok", balance |-> acc_v.acc,
   tx |-> set_id([id |-> << >>,
                  vin |-> SpendInputs(acc_v.outs, from),
                  vout |-> << TXOutput(amount, to) >>
                           \o (IF acc_v.acc > amount
                               THEN << TXOutput(acc_v.acc - amount, from) >>
                               ELSE << >>)])]

new_UTXO(from, to, amount, acc_v) ==
  IF acc_v.acc < amount
  THEN [status |-> "InsufficientFunds", balance |-> acc_v.acc, tx |-> NoTx]
  ELSE [status |-> "ok", balance |-> acc_v.acc,
        tx |-> set_id([id |-> << >>,
                       vin |-> SpendInputs(acc_v.outs, from),
                       vout |-> << TXOutput(amount, to) >>
                                \o (IF acc_v.acc > amount
                                    THEN << TXOutput(acc_v.acc - amount, from) >>
                                    ELSE << >>)])]

trim_copy(tx) ==
  [id |-> tx.id,
   vin |-> [i \in 1..Len(tx.vin) |-> TXInput(tx.vin[i].txid, tx.vin[i].vout, << >>, << >>)],
   vout |-> [i \in 1..Len(tx.vout) |-> TXOutput(tx.vout[i].value, tx.vout[i].pub_key_hash)]]

\* Transaction::hash: the digest of the transaction with its id cleared.
hash(tx) == Sha256([tx EXCEPT !.id = << >>])

\* The digest the loop of sign computes for input in_id (1-based here).
sign_digest(tx, in_id, prev_TXs) ==
  LET c == trim_copy(tx)
      p == prev_TXs[c.vin[in_id].txid]
  IN  hash([c EXCEPT !.vin[in_id].pub_key = p.vout[c.vin[in_id].vout + 1].pub_key_hash])

\* The loop of sign over the inputs of the trimmed copy (in_id counts from 0):
\* each round writes the digest into tx_copy.id; self is never written.
RECURSIVE SignLoop(_, _, _, _)
SignLoop(self, tx_copy, in_id, prev_TXs) ==
  IF in_id >= Len(tx_copy.vin) THEN [status |-> "ok", tx |-> self, tx_copy |-> tx_copy]
  ELSE LET prev_Tx == prev_TXs[tx_copy.vin[in_id + 1].txid]
           vout == tx_copy.vin[in_id + 1].vout
       IN  IF vout + 1 \notin 1..Len(prev_Tx.vout)
           THEN [status |-> "panic", tx |-> self, tx_copy |-> tx_copy]
           ELSE LET keyed == [tx_copy EXCEPT
                                !.vin[in_id + 1].signature = << >>,
                                !.vin[in_id + 1].pub_key = prev_Tx.vout[vout + 1].pub_key_hash]
                    hashed == [keyed EXCEPT !.id = hash(keyed)]
                IN  SignLoop(self, [hashed EXCEPT !.vin[in_id + 1].pub_key = << >>],
                             in_id + 1, prev_TXs)

sign_IdFromCopy(tx, private_key, prev_TXs) ==
  IF is_coinbase(tx) THEN [status |-> "ok", tx |-> tx]
  ELSE IF \E i \in 1..Len(tx.vin) : tx.vin[i].txid \notin DOMAIN prev_TXs
  THEN [status |-> "panic", tx |-> tx]
  ELSE IF \E i \in 1..Len(tx.vin) : prev_TXs[tx.vin[i].txid].id = << >>
  THEN [status |-> "err", tx |-> tx]
  ELSE LET r == SignLoop(tx, trim_copy(tx), 0, prev_TXs)
       IN  [status |-> r.status, tx |-> [r.tx EXCEPT !.id = r.tx_copy.id]]

\* sign: the first loop checks the previous transactions; the second computes
\* the digests into the trimmed copy and drops them.
sign(tx, private_key, prev_TXs) ==
  IF is_coinbase(tx) THEN [status |-> "ok", tx |-> tx]
  ELSE IF \E i \in 1..Len(tx.vin) : tx.vin[i].txid \notin DOMAIN prev_TXs
  THEN [status |-> "panic", tx |-> tx]
  ELSE IF \E i \in 1..Len(tx.vin) : prev_TXs[tx.vin[i].txid].id = << >>
  THEN [status |-> "err", tx |-> tx]
  ELSE LET r == SignLoop(tx, trim_copy(tx), 0, prev_TXs)
       IN  [status |-> r.status, tx |-> r.tx]

\* ---------------------------------------------------------------- block.rs
\* The leading characters the digests cycle through as the nonce grows: the
\* search meets digests with no, one and three leading zeros.
PrefixTable ==
  << <<0, 0, 0, 0>>, <<12, 3, 15, 1>>, <<0, 10, 4, 0>>, <<0, 0, 0, 11>> >>

RECURSIVE CountInputs(_)
CountInputs(txs) ==
  IF txs = << >> THEN 0 ELSE Len(Head(txs).vin) + CountInputs(Tail(txs))

\* A checksum of the hashed content, from which the leading characters derive.
Checksum(content) ==
  LET prev == content[1]
  IN  (IF prev = << >> THEN 0
       ELSE 1 + prev[TARGET_HEXT + 1][3] + prev[TARGET_HEXT + 1][5])
      + Len(content[2]) + CountInputs(content[2]) + content[3] + content[4]

\* result_str of Sha256 over the serialized content.
Sha256Hex(content) ==
  PrefixTable[((Checksum(content) + content[5]) % Len(PrefixTable)) + 1] \o <<content>>

preapre_hash_data(block) ==
  <<block.prev_block_hash, block.transactions, block.timestamp, TARGET_HEXT, block.nonce>>

validate_Short(block) ==
  SubSeq(Sha256Hex(preapre_hash_data(block)), 1, TARGET_HEXT - 1)
    = [i \in 1..(TARGET_HEXT - 1) |-> 0]

validate(block) ==
  SubSeq(Sha256Hex(preapre_hash_data(block)), 1, TARGET_HEXT) = [i \in 1..TARGET_HEXT |-> 0]

RECURSIVE run_proof_if_work(_)
run_proof_if_work(block) ==
  IF ~validate(block)
  THEN run_proof_if_work([block EXCEPT !.nonce = @ + 1])
  ELSE [block EXCEPT !.hash = Sha256Hex(preapre_hash_data(block))]

new_block(data, prev_block_hash, height, timestamp) ==
  run_proof_if_work([timestamp |-> timestamp, transactions |-> data,
                     prev_block_hash |-> prev_block_hash, hash |-> << >>,
                     height |-> height, nonce |-> 0])

new_genesis_block(coinbase, timestamp) == new_block(<<coinbase>>, << >>, 0, timestamp)

\* ----------------------------------------------------------- blockchain.rs
\* The block store "data/blocks": the blocks keyed by hash and the value of
\* the reserved key "LAST" (<< >> when the key is absent).
EmptyStore == [blocks |-> EmptyMap, last |-> << >>]

NoBlock ==
  [timestamp |-> 0, transactions |-> << >>, prev_block_hash |-> << >>,
   hash |-> << >>, height |-> 0, nonce |-> 0]

\* db.insert(hash, block) and db.insert("LAST", hash)
PutBlock(b) == [last |-> FALSE, hash |-> b.hash, block |-> b]

PutLast(h) == [last |-> TRUE, hash |-> h, block |-> NoBlock]

ApplyWrite_Replace(store, w) ==
  IF w.last THEN [store EXCEPT !.last = w.hash]
  ELSE [store EXCEPT !.blocks = Put(EmptyMap, w.hash, w.block)]

ApplyWrite(store, w) ==
  IF w.last THEN [store EXCEPT !.last = w.hash]
  ELSE [store EXCEPT !.blocks = Put(@, w.hash, w.block)]

RECURSIVE ApplyAll(_, _)
ApplyAll(store, ws) ==
  IF ws = << >> THEN store ELSE ApplyAll(ApplyWrite(store, Head(ws)), Tail(ws))

\* Blockchain::new: expect() on the missing "LAST" key panics.
Blockchain_new(store) ==
  IF store.last = << >>
  THEN [status |-> "panic", current_hash |-> << >>]
  ELSE [status |-> "ok", current_hash |-> store.last]

\* BlockchainIter::next
BlockchainIter_next_Stop(store, current_hash) ==
  IF current_hash \in DOMAIN store.blocks
  THEN [some |-> TRUE, block |-> store.blocks[current_hash],
        current_hash |-> << >>]
  ELSE [some |-> FALSE, block |-> NoBlock, current_hash |-> current_hash]

BlockchainIter_next(store, current_hash) ==
  IF current_hash \in DOMAIN store.blocks
  THEN [some |-> TRUE, block |-> store.blocks[current_hash],
        current_hash |-> store.blocks[current_hash].prev_block_hash]
  ELSE [some |-> FALSE, block |-> NoBlock, current_hash |-> current_hash]

\* The blocks a for-loop over iter() sees; finite is FALSE when the walk is
\* still yielding after more steps than the store has blocks.
RECURSIVE IterFrom(_, _, _)
IterFrom(store, current_hash, fuel) ==
  LET n == BlockchainIter_next(store, current_hash)
  IN  IF ~n.some THEN [blocks |-> << >>, finite |-> TRUE]
      ELSE IF fuel = 0 THEN [blocks |-> << >>, finite |-> FALSE]
      ELSE LET r == IterFrom(store, n.current_hash, fuel - 1)
           IN  [blocks |-> <<n.block>> \o r.blocks, finite |-> r.finite]

iter(store, current_hash) ==
  IterFrom(store, current_hash, Cardinality(DOMAIN store.blocks))

\* The transactions of the chain in the order find_transaction scans them.
RECURSIVE ConcatTxs(_)
ConcatTxs(blocks) ==
  IF blocks = << >> THEN << >>
  ELSE Head(blocks).transactions \o ConcatTxs(Tail(blocks))

find_transaction(store, current_hash, id) ==
  LET txs == ConcatTxs(iter(store, current_hash).blocks)
      hits == {i \in 1..Len(txs) : txs[i].id = id}
  IN  IF hits = {} THEN [status |-> "NotFound", tx |-> NoTx]
      ELSE [status |-> "ok", tx |-> txs[CHOOSE i \in hits : \A j \in hits : i <= j]]

RECURSIVE PrevTxsLoop(_, _, _, _)
PrevTxsLoop(store, current_hash, vin, prev_txs) ==
  IF vin = << >> THEN [status |-> "ok", prev_txs |-> prev_txs]
  ELSE LET f == find_transaction(store, current_hash, Head(vin).txid)
       IN  IF f.status # "ok" THEN [status |-> "NotFound", prev_txs |-> prev_txs]
           ELSE PrevTxsLoop(store, current_hash, Tail(vin), Put(prev_txs, f.tx.id, f.tx))

get_prev_txs(store, current_hash, tx) == PrevTxsLoop(store, current_hash, tx.vin, EmptyMap)

sign_transaction(store, current_hash, tx, private_key) ==
  LET p == get_prev_txs(store, current_hash, tx)
  IN  IF p.status # "ok" THEN [status |-> "NotFound", tx |-> tx]
      ELSE sign(tx, private_key, p.prev_txs)

\* find_UTXO: st = [utxos : txid -> outputs, spend_txos : txid -> set of indexes]
RECURSIVE MarkInputs(_, _)
MarkInputs(vin, spend_txos) ==
  IF vin = << >> THEN spend_txos
  ELSE MarkInputs(Tail(vin),
         Put(spend_txos, Head(vin).txid,
             (IF Head(vin).txid \in DOMAIN spend_txos
              THEN spend_txos[Head(vin).txid] ELSE {}) \cup {Head(vin).vout}))

RECURSIVE UTXOIndexLoop(_, _, _)
UTXOIndexLoop(tx, index, st) ==
  IF index >= Len(tx.vout) THEN st
  ELSE IF tx.id \in DOMAIN st.spend_txos /\ index \in st.spend_txos[tx.id]
  THEN UTXOIndexLoop(tx, index + 1, st)
  ELSE UTXOIndexLoop(tx, index + 1,
         [utxos |-> Put(st.utxos, tx.id,
                        (IF tx.id \in DOMAIN st.utxos THEN st.utxos[tx.id] ELSE << >>)
                        \o <<tx.vout[index + 1]>>),
          spend_txos |-> IF is_coinbase(tx) THEN st.spend_txos
                         ELSE MarkInputs(tx.vin, st.spend_txos)])

RECURSIVE UTXOTxLoop(_, _)
UTXOTxLoop(txs, st) ==
  IF txs = << >> THEN st ELSE UTXOTxLoop(Tail(txs), UTXOIndexLoop(Head(txs), 0, st))

find_UTXO(store, current_hash) ==
  UTXOTxLoop(ConcatTxs(iter(store, current_hash).blocks),
             [utxos |-> EmptyMap, spend_txos |-> EmptyMap]).utxos

\* -------------------------------------------------------------- utxoset.rs
\* The index store "data/utxos": whether the directory exists, and its keys.
NoIndex == [exists |-> FALSE, kv |-> EmptyMap]

\* sled::open creates the store when it is missing.
OpenIndex(utxo) == [exists |-> TRUE, kv |-> utxo.kv]

\* reindex: remove_dir_all fails on a missing directory, before anything is written.
reindex(utxo, store, current_hash) ==
  IF ~utxo.exists THEN [status |-> "err", utxo |-> utxo]
  ELSE [status |-> "ok", utxo |-> [exists |-> TRUE, kv |-> find_UTXO(store, current_hash)]]

\* The outputs of an entry without position vout (0-based).
RemoveAt(outs, vout) ==
  LET keep == {i \in 1..Len(outs) : i - 1 # vout}
      pos(k) == CHOOSE i \in keep : Cardinality({j \in keep : j < i}) = k - 1
  IN  [k \in 1..Cardinality(keep) |-> outs[pos(k)]]

UpdateInputs_Skip(vin, kv) == [status |-> "ok", kv |-> kv]

RECURSIVE UpdateInputs(_, _)
UpdateInputs(vin, kv) ==
  IF vin = << >> THEN [status |-> "ok", kv |-> kv]
  ELSE IF Head(vin).txid \notin DOMAIN kv THEN [status |-> "panic", kv |-> kv]
  ELSE LET update_outputs == RemoveAt(kv[Head(vin).txid], Head(vin).vout)
       IN  UpdateInputs(Tail(vin),
             IF update_outputs = << >> THEN Del(kv, Head(vin).txid)
             ELSE Put(kv, Head(vin).txid, update_outputs))

RECURSIVE UpdateTxs(_, _)
UpdateTxs(txs, kv) ==
  IF txs = << >> THEN [status |-> "ok", kv |-> kv]
  ELSE LET r == IF is_coinbase(Head(txs)) THEN [status |-> "ok", kv |-> kv]
                ELSE UpdateInputs(Head(txs).vin, kv)
       IN  IF r.status # "ok" THEN r
           ELSE UpdateTxs(Tail(txs), Put(r.kv, Head(txs).id, Head(txs).vout))

update(utxo, block) ==
  LET r == UpdateTxs(block.transactions, utxo.kv)
  IN  [status |-> r.status, utxo |-> [exists |-> TRUE, kv |-> r.kv]]

count_transactions(utxo) == Cardinality(DOMAIN utxo.kv)

\* FindSpendableOutputs: scans the entries in the order given, taking matching
\* outputs while the accumulated value is below amount.
RECURSIVE SpendableInEntry(_, _, _, _, _)
SpendableInEntry(outs, idx, owner, amount, r) ==
  IF idx >= Len(outs) THEN r
  ELSE IF can_be_unlock_with(outs[idx + 1], owner) /\ r.acc < amount
  THEN SpendableInEntry(outs, idx + 1, owner, amount,
         [acc |-> r.acc + outs[idx + 1].value, picked |-> Append(r.picked, idx)])
  ELSE SpendableInEntry(outs, idx + 1, owner, amount, r)

RECURSIVE SpendableScan(_, _, _, _, _)
SpendableScan(kv, order, owner, amount, r) ==
  IF order = << >> THEN r
  ELSE LET e == SpendableInEntry(kv[Head(order)], 0, owner, amount,
                                 [acc |-> r.acc, picked |-> << >>])
       IN  SpendableScan(kv, Tail(order), owner, amount,
             [acc |-> e.acc,
              outs |-> IF e.picked = << >> THEN r.outs
                       ELSE Append(r.outs, <<Head(order), e.picked>>)])

find_spendable_outputs(kv, order, owner, amount) ==
  SpendableScan(kv, order, owner, amount, [acc |-> 0, outs |-> << >>])

\* FindUTXOForAddress: every output of the index the owner can unlock.
RECURSIVE OwnedValues(_, _)
OwnedValues(outs, owner) ==
  IF outs = << >> THEN 0
  ELSE (IF can_be_unlock_with(Head(outs), owner) THEN Head(outs).value ELSE 0)
       + OwnedValues(Tail(outs), owner)

RECURSIVE BalanceOver(_, _, _)
BalanceOver(kv, keys, owner) ==
  IF keys = {} THEN 0
  ELSE LET k == CHOOSE x \in keys : TRUE
       IN  OwnedValues(kv[k], owner) + BalanceOver(kv, keys \ {k}, owner)

getbalance(utxo, owner) == BalanceOver(utxo.kv, DOMAIN utxo.kv, owner)

\* create_blockchain: remove_dir_all("data/blocks") discards the store, the
\* flushed part and the unflushed part.
RemoveBlocksDir_Keep(d, w) == [disk |-> d, wal |-> w]

RemoveBlocksDir(d, w) == [disk |-> EmptyStore, wal |-> << >>]

\* The two inserts of create_blockchain and of add_block, in program order.
StoreWrites_TipFirst(b) == << PutLast(b.hash), PutBlock(b) >>

StoreWrites(b) == << PutBlock(b), PutLast(b.hash) >>

\* ------------------------------------------------------------------ state
VARIABLES
  disk,    \* the block store as flushed to durable storage
  wal,     \* the writes to the block store not yet flushed, oldest first
  utxo,    \* the index store
  pc,      \* the position of the running command
  bc,      \* current_hash of the open Blockchain handle (<< >> when none)
  loc,     \* the locals of the running command
  res,     \* the outcome of the last command
  clock,   \* the system time in ms
  chain    \* history: the blocks appended since the store was created, oldest first

\* The nodes of the network (server.rs); the commands above run without them.
VARIABLES
  inner,     \* per node: ServerInner and the stores of the node's directory
  wire,      \* the connections accepted and not yet read: [to, bytes]
  handlers,  \* the handle_block threads under way
  out,       \* the step the network took last: who, which handler, how it ended
  budget,    \* the faults and foreign messages so far, the versions sent
  lock       \* per node: the handler that holds the Mutex of ServerInner, if any

clivars == <<disk, wal, utxo, pc, bc, loc, res, clock, chain>>

netvars == <<inner, wire, handlers, out, budget, lock>>

vars == <<disk, wal, utxo, pc, bc, loc, res, clock, chain,
          inner, wire, handlers, out, budget, lock>>

\* What a reader of the block store sees.
View == ApplyAll(disk, wal)

NoAcc == [acc |-> 0, outs |-> << >>]

NoLoc ==
  [block |-> NoBlock, from |-> "", to |-> "", amount |-> 0, acc_v |-> NoAcc]

NoRes ==
  [cmd |-> "none", open |-> "none", status |-> "none", value |-> 0,
   blocks |-> << >>, tx |-> NoTx, signed |-> NoTx, prev_txs |-> EmptyMap,
   key |-> ""]

NoOut ==
  [node |-> "", event |-> "none", status |-> "none", sent_to |-> "", send |-> "none"]

NoBudget == [faults |-> 0, injects |-> 0, versions |-> {}]

Init ==
  /\ disk = EmptyStore
  /\ wal = << >>
  /\ utxo = NoIndex
  /\ pc = "idle"
  /\ bc = << >>
  /\ loc = NoLoc
  /\ res = NoRes
  /\ clock = 0
  /\ chain = << >>
  /\ inner = << >>
  /\ wire = {}
  /\ handlers = {}
  /\ out = NoOut
  /\ budget = NoBudget
  /\ lock = << >>

\* SystemTime::now(): the time read is t; a later read is in a later
\* millisecond, until the clock of the model saturates.
Now(t) == /\ t = clock
          /\ clock' = IF clock < MaxClock THEN clock + 1 ELSE clock

\* The index entries that hold an output of owner; the scan order of the
\* others does not change what a scan for owner selects.
OwnedKeys(kv, owner) ==
  {k \in DOMAIN kv : \E i \in 1..Len(kv[k]) : can_be_unlock_with(kv[k][i], owner)}

\* ------------------------------------------------------------ cli: create
CreateStart(address, t) ==
  /\ UNCHANGED netvars
  /\ pc = "idle"
  /\ Now(t)
  /\ disk' = RemoveBlocksDir(disk, wal).disk
  /\ wal' = RemoveBlocksDir(disk, wal).wal
  /\ loc' = [NoLoc EXCEPT
               !.block = new_genesis_block(new_coinbase(address, GENESIS_COINBASE_DATA), t),
               !.to = address]
  /\ pc' = "create_put_block"
  /\ bc' = << >>
  /\ res' = NoRes
  /\ chain' = << >>
  /\ UNCHANGED utxo

CreatePutBlock ==
  /\ UNCHANGED netvars
  /\ pc = "create_put_block"
  /\ wal' = Append(wal, StoreWrites(loc.block)[1])
  /\ pc' = "create_put_last"
  /\ UNCHANGED <<disk, utxo, bc, loc, res, clock, chain>>

CreatePutLast ==
  /\ UNCHANGED netvars
  /\ pc = "create_put_last"
  /\ wal' = Append(wal, StoreWrites(loc.block)[2])
  /\ bc' = loc.block.hash
  /\ chain' = <<loc.block>>
  /\ pc' = "create_flush"
  /\ UNCHANGED <<disk, utxo, loc, res, clock>>

CreateFlush ==
  /\ UNCHANGED netvars
  /\ pc = "create_flush"
  /\ disk' = ApplyAll(disk, wal)
  /\ wal' = << >>
  /\ pc' = "create_reindex"
  /\ res' = [NoRes EXCEPT !.cmd = "create_blockchain", !.status = "ok", !.key = loc.to]
  /\ UNCHANGED <<utxo, bc, loc, clock, chain>>

CreateReindex ==
  /\ UNCHANGED netvars
  /\ pc = "create_reindex"
  /\ LET r == reindex(utxo, View, bc)
     IN  /\ utxo' = r.utxo
         /\ res' = [NoRes EXCEPT !.cmd = "create", !.status = r.status,
                                 !.key = loc.to]
  /\ pc' = "done"
  /\ UNCHANGED <<disk, wal, bc, loc, clock, chain>>

\* -------------------------------------------------------- cli: getbalance
GetBalance(address) ==
  /\ UNCHANGED netvars
  /\ pc = "idle"
  /\ LET o == Blockchain_new(View)
     IN  IF o.status # "ok"
         THEN /\ res' = [NoRes EXCEPT !.cmd = "getbalance", !.open = o.status]
              /\ UNCHANGED utxo
         ELSE /\ utxo' = OpenIndex(utxo)
              /\ res' = [NoRes EXCEPT !.cmd = "getbalance", !.open = "ok", !.status = "ok",
                                      !.key = address,
                                      !.value = getbalance(OpenIndex(utxo), address)]
  /\ bc' = Blockchain_new(View).current_hash
  /\ pc' = "done"
  /\ UNCHANGED <<disk, wal, loc, clock, chain>>

\* -------------------------------------------------------- cli: printchain
PrintChain ==
  /\ UNCHANGED netvars
  /\ pc = "idle"
  /\ LET o == Blockchain_new(View)
     IN  IF o.status # "ok"
         THEN res' = [NoRes EXCEPT !.cmd = "printchain", !.open = o.status]
         ELSE LET it == iter(View, o.current_hash)
              IN  res' = [NoRes EXCEPT !.cmd = "printchain", !.open = "ok",
                                       !.status = IF it.finite THEN "ok" ELSE "endless",
                                       !.blocks = it.blocks]
  /\ bc' = Blockchain_new(View).current_hash
  /\ pc' = "done"
  /\ UNCHANGED <<disk, wal, utxo, loc, clock, chain>>

\* ----------------------------------------------------------- cli: reindex
Reindex ==
  /\ UNCHANGED netvars
  /\ pc = "idle"
  /\ LET o == Blockchain_new(View)
     IN  IF o.status # "ok"
         THEN /\ res' = [NoRes EXCEPT !.cmd = "reindex", !.open = o.status]
              /\ UNCHANGED utxo
         ELSE LET r == reindex(utxo, View, o.current_hash)
              IN  /\ utxo' = r.utxo
                  /\ res' = [NoRes EXCEPT !.cmd = "reindex", !.open = "ok",
                                          !.status = r.status,
                                          !.value = IF r.status = "ok"
                                                    THEN count_transactions(r.utxo) ELSE 0]
  /\ bc' = Blockchain_new(View).current_hash
  /\ pc' = "done"
  /\ UNCHANGED <<disk, wal, loc, clock, chain>>

\* -------------------------------------------------------------- cli: send
\* Blockchain::new, then the selection new_UTXO starts with.
SendStart(from, to, amount) ==
  /\ UNCHANGED netvars
  /\ pc = "idle"
  /\ LET o == Blockchain_new(View)
     IN  IF o.status # "ok"
         THEN /\ res' = [NoRes EXCEPT !.cmd = "send", !.open = o.status]
              /\ pc' = "done"
              /\ UNCHANGED <<utxo, bc, loc>>
         ELSE /\ Len(chain) < MaxBlocks
              /\ utxo' = OpenIndex(utxo)
              /\ bc' = o.current_hash
              /\ \E order \in Orders(OwnedKeys(utxo.kv, from)) :
                   loc' = [NoLoc EXCEPT !.from = from, !.to = to, !.amount = amount,
                             !.acc_v = find_spendable_outputs(utxo.kv, order, from, amount)]
              /\ pc' = "send_build"
              /\ res' = NoRes
  /\ UNCHANGED <<disk, wal, clock, chain>>

\* The rest of new_UTXO, then new_coinbase and add_block up to the mined block.
SendBuild(t) ==
  /\ UNCHANGED netvars
  /\ pc = "send_build"
  /\ LET r == new_UTXO(loc.from, loc.to, loc.amount, loc.acc_v)
     IN  IF r.status # "ok"
         THEN /\ res' = [NoRes EXCEPT !.cmd = "send", !.open = "ok", !.status = r.status,
                                      !.value = r.balance, !.tx = r.tx]
              /\ pc' = "done"
              /\ UNCHANGED <<bc, loc, clock>>
         ELSE /\ Now(t)
              /\ loc' = [loc EXCEPT !.block =
                           new_block(<<new_coinbase(loc.from, "reward"), r.tx>>,
                                     View.last, TARGET_HEXT, t)]
              /\ res' = [NoRes EXCEPT !.cmd = "new_UTXO", !.open = "ok", !.status = "ok",
                                      !.value = r.balance, !.tx = r.tx]
              /\ pc' = "send_put_block"
              /\ UNCHANGED bc
  /\ UNCHANGED <<disk, wal, utxo, chain>>

SendPutBlock ==
  /\ UNCHANGED netvars
  /\ pc = "send_put_block"
  /\ wal' = Append(wal, StoreWrites(loc.block)[1])
  /\ pc' = "send_put_last"
  /\ UNCHANGED <<disk, utxo, bc, loc, res, clock, chain>>

SendPutLast_NoCache ==
  /\ UNCHANGED netvars
  /\ pc = "send_put_last"
  /\ wal' = Append(wal, StoreWrites(loc.block)[2])
  /\ chain' = Append(chain, loc.block)
  /\ pc' = "send_update"
  /\ UNCHANGED <<disk, utxo, bc, loc, res, clock>>

SendPutLast ==
  /\ UNCHANGED netvars
  /\ pc = "send_put_last"
  /\ wal' = Append(wal, StoreWrites(loc.block)[2])
  /\ bc' = loc.block.hash
  /\ chain' = Append(chain, loc.block)
  /\ pc' = "send_update"
  /\ UNCHANGED <<disk, utxo, loc, res, clock>>

SendUpdate ==
  /\ UNCHANGED netvars
  /\ pc = "send_update"
  /\ LET r == update(utxo, loc.block)
     IN  /\ utxo' = r.utxo
         /\ res' = [NoRes EXCEPT !.cmd = "send", !.open = "ok",
                                 !.status = IF r.status = "ok" THEN "sent" ELSE r.status,
                                 !.tx = res.tx, !.value = res.value]
  /\ pc' = "done"
  /\ UNCHANGED <<disk, wal, bc, loc, clock, chain>>

\* ------------------------------------------------- signing a transaction
\* Blockchain::sign_transaction on the transaction the send has built.
SignTransaction(private_key) ==
  /\ UNCHANGED netvars
  /\ pc = "done"
  /\ res.cmd = "send"
  /\ res.status = "sent"
  /\ LET p == get_prev_txs(View, bc, res.tx)
         s == sign_transaction(View, bc, res.tx, private_key)
     IN  res' = [NoRes EXCEPT !.cmd = "sign", !.open = "ok", !.status = s.status,
                              !.tx = res.tx, !.signed = s.tx, !.prev_txs = p.prev_txs,
                              !.key = private_key]
  /\ UNCHANGED <<disk, wal, utxo, pc, bc, loc, clock, chain>>

\* Transaction::sign on the coinbase transaction the send has built.
SignCoinbase(private_key) ==
  /\ UNCHANGED netvars
  /\ pc = "done"
  /\ res.cmd = "send"
  /\ res.status = "sent"
  /\ LET tx == loc.block.transactions[1]
         s == sign(tx, private_key, EmptyMap)
     IN  res' = [NoRes EXCEPT !.cmd = "sign", !.open = "none", !.status = s.status,
                              !.tx = tx, !.signed = s.tx, !.key = private_key]
  /\ UNCHANGED <<disk, wal, utxo, pc, bc, loc, clock, chain>>

\* The command's process exits.
Exit ==
  /\ UNCHANGED netvars
  /\ pc = "done"
  /\ pc' = "idle"
  /\ bc' = << >>
  /\ loc' = NoLoc
  /\ res' = NoRes
  /\ UNCHANGED <<disk, wal, utxo, clock, chain>>

\* ------------------------------------------------ durability and crashes
\* The process dies.  sled flushes its log in the background, oldest write
\* first, so the first k of the unflushed writes have reached the disk and the
\* others are lost, as is the running command.  The model stops at the store
\* the crash leaves.
Crash(k) ==
  /\ UNCHANGED netvars
  /\ pc # "crashed"
  /\ k \in 0..Len(wal)
  /\ disk' = ApplyAll(disk, SubSeq(wal, 1, k))
  /\ wal' = << >>
  /\ pc' = "crashed"
  /\ bc' = << >>
  /\ loc' = NoLoc
  /\ res' = NoRes
  /\ UNCHANGED <<utxo, clock, chain>>

Next ==
  \/ \E a \in Addresses, t \in 0..MaxClock : CreateStart(a, t)
  \/ CreatePutBlock
  \/ CreatePutLast
  \/ CreateFlush
  \/ CreateReindex
  \/ \E a \in Addresses : GetBalance(a)
  \/ PrintChain
  \/ Reindex
  \/ \E f \in Addresses, to \in Addresses, m \in Amounts : SendStart(f, to, m)
  \/ \E t \in 0..MaxClock : SendBuild(t)
  \/ SendPutBlock
  \/ SendPutLast
  \/ SendUpdate
  \/ \E k \in PrivateKeys : SignTransaction(k)
  \/ \E k \in PrivateKeys : SignCoinbase(k)
  \/ Exit

Spec == Init /\ [][Next]_vars

\* ------------------------------------------------- update as a public call
\* UTXOSet::update is public: a caller that holds the opened ledger hands it a
\* block of the ledger, which need not be the block just appended.
UpdateWith(h) ==
  /\ UNCHANGED netvars
  /\ pc = "idle"
  /\ Blockchain_new(View).status = "ok"
  /\ h \in DOMAIN View.blocks
  /\ LET r == update(OpenIndex(utxo), View.blocks[h])
     IN  /\ utxo' = r.utxo
         /\ res' = [NoRes EXCEPT !.cmd = "update", !.open = "ok", !.status = r.status]
  /\ bc' = Blockchain_new(View).current_hash
  /\ loc' = [NoLoc EXCEPT !.block = View.blocks[h]]
  /\ pc' = "done"
  /\ UNCHANGED <<disk, wal, clock, chain>>

NextUpdate == Next \/ \E h \in DOMAIN View.blocks : UpdateWith(h)

SpecUpdate == Init /\ [][NextUpdate]_vars

\* Transaction::sign, the public function, on the transaction the send has
\* built, with the previous transactions the caller hands over: those of
\* the chain whose ids are in ids.
SignWith(private_key, ids) ==
  /\ UNCHANGED netvars
  /\ pc = "done"
  /\ res.cmd = "send"
  /\ res.status = "sent"
  /\ LET p == get_prev_txs(View, bc, res.tx).prev_txs
         prev_TXs == [id \in (DOMAIN p) \cap ids |-> p[id]]
         s == sign(res.tx, private_key, prev_TXs)
     IN  /\ ids \subseteq DOMAIN p
         /\ res' = [NoRes EXCEPT !.cmd = "sign", !.open = "none", !.status = s.status,
                                  !.tx = res.tx, !.signed = s.tx, !.prev_txs = prev_TXs,
                                  !.key = private_key]
  /\ UNCHANGED <<disk, wal, utxo, pc, bc, loc, clock, chain>>

NextSign ==
  \/ Next
  \/ \E private_key \in PrivateKeys :
       \E ids \in SUBSET {tx.id : tx \in {ConcatTxs(chain)[i] : i \in 1..Len(ConcatTxs(chain))}} :
         SignWith(private_key, ids)

SpecSign == Init /\ [][NextSign]_vars

\* the amounts the command line parses into an i32 besides the positive ones
OtherAmounts == {0 - 40, 0}

NextAmount ==
  \/ Next
  \/ \E from \in Addresses : \E to \in Addresses : \E amount \in OtherAmounts :
       SendStart(from, to, amount)

SpecAmount == Init /\ [][NextAmount]_vars

NextCrash == Next \/ \E k \in 0..(2 * MaxBlocks) : Crash(k)

SpecCrash == Init /\ [][NextCrash]_vars

\* ------------------------------------------------------------ server: wire format

KNOWN_NODE1 == "localhost:3000"

CMD_LEN == 12

VERSION == 1

\* str::as_bytes of the command names the nodes use, and of one they do not
as_bytes(cmd) ==
  CASE cmd = "addr"      -> <<97, 100, 100, 114>>
    [] cmd = "block"     -> <<98, 108, 111, 99, 107>>
    [] cmd = "inv"       -> <<105, 110, 118>>
    [] cmd = "getblocks" -> <<103, 101, 116, 98, 108, 111, 99, 107, 115>>
    [] cmd = "getdata"   -> <<103, 101, 116, 100, 97, 116, 97>>
    [] cmd = "tx"        -> <<116, 120>>
    [] cmd = "version"   -> <<118, 101, 114, 115, 105, 111, 110>>
    [] cmd = "ping"      -> <<112, 105, 110, 103>>

Commands == {"addr", "block", "inv", "getblocks", "getdata", "tx", "version"}

\* the payload of a message; `schema` is the type that was serialized
NoPayload ==
  [schema |-> "", addr_from |-> "", version |-> 0, best_height |-> 0, kind |-> "",
   id |-> << >>, items |-> << >>, block |-> NoBlock, transaction |-> NoTx, addrs |-> {}]

Blockmsg(addr_from, block) ==
  [NoPayload EXCEPT !.schema = "Blockmsg", !.addr_from = addr_from, !.block = block]

GetBlockmsg(addr_from) ==
  [NoPayload EXCEPT !.schema = "GetBlockmsg", !.addr_from = addr_from]

GetDatamsg(addr_from, kind, id) ==
  [NoPayload EXCEPT !.schema = "GetDatamsg", !.addr_from = addr_from, !.kind = kind, !.id = id]

Invmsg(addr_from, kind, items) ==
  [NoPayload EXCEPT !.schema = "Invmsg", !.addr_from = addr_from, !.kind = kind, !.items = items]

Txmsg(addr_from, transaction) ==
  [NoPayload EXCEPT !.schema = "Txmsg", !.addr_from = addr_from, !.transaction = transaction]

Versionmsg(addr_from, version, best_height) ==
  [NoPayload EXCEPT !.schema = "Versionmsg", !.addr_from = addr_from, !.version = version,
                    !.best_height = best_height]

AddrList(nodes) == [NoPayload EXCEPT !.schema = "Vec<String>", !.addrs = nodes]

cmd_to_bytes(cmd) ==
  [i \in 1..CMD_LEN |-> IF i <= Len(as_bytes(cmd)) THEN as_bytes(cmd)[i] ELSE 0]

\* bincode::serialize(&(cmd_to_bytes(cmd), data)): the tag bytes, then the payload
serialize(cmd, data) == [tag |-> cmd_to_bytes(cmd), data |-> data]

NonZero(b) == b # 0

\* 0xFF occurs in no UTF-8 text; the other bytes of the model are ASCII
from_utf8_ok(cmd) == \A i \in 1..Len(cmd) : cmd[i] < 128

\* bincode::deserialize into the type the branch asks for
deserialize(data, schema) ==
  IF data.schema = schema THEN [status |-> "ok", cmd |-> "", data |-> data]
  ELSE [status |-> "SerializationError", cmd |-> "", data |-> NoPayload]

Decoded(cmd, data, schema) ==
  LET d == deserialize(data, schema)
  IN  [d EXCEPT !.cmd = IF d.status = "ok" THEN cmd ELSE ""]

bytes_to_cmd(bytes) ==
  IF Len(bytes.tag) < CMD_LEN
  THEN [status |-> "panic", cmd |-> "", data |-> NoPayload]
  ELSE LET cmd == SelectSeq(SubSeq(bytes.tag, 1, CMD_LEN), NonZero)
           data == bytes.data
       IN  IF ~from_utf8_ok(cmd)
           THEN [status |-> "FromUtf8Error", cmd |-> "", data |-> NoPayload]
           ELSE IF cmd = as_bytes("addr") THEN Decoded("addr", data, "Vec<String>")
           ELSE IF cmd = as_bytes("block") THEN Decoded("block", data, "Blockmsg")
           ELSE IF cmd = as_bytes("inv") THEN Decoded("inv", data, "Invmsg")
           ELSE IF cmd = as_bytes("getblocks") THEN Decoded("getblocks", data, "GetBlockmsg")
           ELSE IF cmd = as_bytes("getdata") THEN Decoded("getdata", data, "GetDatamsg")
           ELSE IF cmd = as_bytes("tx") THEN Decoded("tx", data, "Txmsg")
           ELSE IF cmd = as_bytes("version") THEN Decoded("version", data, "Versionmsg")
           ELSE [status |-> "UnknownCommand", cmd |-> "", data |-> NoPayload]

\* ------------------------------------------------------------ server: nodes

OtherNode == "localhost:3001"

\* an address nobody listens on
GoneNode == "localhost:3002"

Nodes == {KNOWN_NODE1, OtherNode}

\* Server::new: the registry starts with KNOWN_NODE1; `s` and `h` are the
\* ledger of the node's directory and its tip, `u` its index
Server_new(s, h, u) ==
  [known_nodes |-> {KNOWN_NODE1}, store |-> s, current_hash |-> h, utxo |-> u,
   blocks_in_transit |-> << >>, mempool |-> EmptyMap]

add_nodes(sv, addr) == [sv EXCEPT !.known_nodes = @ \cup {addr}]

AddAll(sv, addrs) == [sv EXCEPT !.known_nodes = @ \cup addrs]

remove_node(sv, addr) == [sv EXCEPT !.known_nodes = @ \ {addr}]

get_known_nodes(sv) == sv.known_nodes

\* what the operating system can answer to connect and write
Outcomes(addr) ==
  IF addr \in Nodes
  THEN {"sent"} \cup (IF budget.faults < MaxFaults THEN {"connect_failed", "write_failed"} ELSE {})
  ELSE {"connect_failed"}

\* send_data of node `self`: the node afterwards, the message that left, the result
send_data(self, sv, addr, data, outcome) ==
  IF addr = self
  THEN [status |-> "ok", sv |-> sv, sent |-> {}, send |-> "self"]
  ELSE IF outcome = "connect_failed"
  THEN [status |-> "ok", sv |-> remove_node(sv, addr), sent |-> {}, send |-> outcome]
  ELSE IF outcome = "write_failed"
  THEN [status |-> "IOError", sv |-> sv, sent |-> {}, send |-> outcome]
  ELSE [status |-> "ok", sv |-> sv, sent |-> {[to |-> addr, bytes |-> data]}, send |-> outcome]

\* the height of the tip block
get_best_height(sv) ==
  IF sv.current_hash \in DOMAIN sv.store.blocks
  THEN sv.store.blocks[sv.current_hash].height
  ELSE 0 - 1

send_get_blocks(self, sv, addr, outcome) ==
  send_data(self, sv, addr, serialize("getblocks", GetBlockmsg(self)), outcome)

send_get_data(self, sv, addr, kind, id, outcome) ==
  send_data(self, sv, addr, serialize("getdata", GetDatamsg(self, kind, id)), outcome)

send_version(self, sv, addr, outcome) ==
  send_data(self, sv, addr, serialize("version", Versionmsg(self, VERSION, get_best_height(sv))), outcome)

send_tx(self, sv, addr, tx, outcome) ==
  send_data(self, sv, addr, serialize("tx", Txmsg(self, tx)), outcome)

send_inv(self, sv, addr, kind, items, outcome) ==
  send_data(self, sv, addr, serialize("inv", Invmsg(self, kind, items)), outcome)

send_block(self, sv, addr, b, outcome) ==
  send_data(self, sv, addr, serialize("block", Blockmsg(self, b)), outcome)

send_addr(self, sv, addr, outcome) ==
  send_data(self, sv, addr, serialize("addr", AddrList(get_known_nodes(sv))), outcome)

\* ------------------------------------------------------------ server: handlers

\* "append it to the local ledger": the block by its hash, then the tip
Server_add_block(sv, block) ==
  [sv EXCEPT !.store = ApplyAll(@, StoreWrites(block)), !.current_hash = block.hash]

get_in_transit(sv) == sv.blocks_in_transit

replace_in_transit(sv, hashes) == [sv EXCEPT !.blocks_in_transit = hashes]

utxo_reindex(sv) ==
  LET r == reindex(sv.utxo, sv.store, sv.current_hash)
  IN  [status |-> r.status, sv |-> [sv EXCEPT !.utxo = r.utxo]]

get_block_hashs(sv) ==
  LET bs == iter(sv.store, sv.current_hash).blocks
  IN  [i \in 1..Len(bs) |-> bs[i].hash]

\* a handler that sent nothing
NoSend(sv) == [status |-> "ok", sv |-> sv, sent |-> {}, send |-> "none"]

handle_addr(sv, msg) == NoSend(AddAll(sv, msg.addrs))

handle_version(self, sv, msg, outcome) ==
  IF msg.best_height > get_best_height(sv)
  THEN send_get_blocks(self, sv, msg.addr_from, outcome)
  ELSE NoSend(add_nodes(sv, msg.addr_from))

handle_get_blocks(self, sv, msg, outcome) ==
  send_inv(self, sv, msg.addr_from, "block", get_block_hashs(sv), outcome)

handle_inv(self, sv, msg, outcome) ==
  IF msg.kind = "block" /\ msg.items # << >>
  THEN send_get_data(self, replace_in_transit(sv, Tail(msg.items)), msg.addr_from,
                     "block", Head(msg.items), outcome)
  ELSE NoSend(sv)

handle_get_data(self, sv, msg, outcome) ==
  IF msg.kind = "block" /\ msg.id \in DOMAIN sv.store.blocks
  THEN send_block(self, sv, msg.addr_from, sv.store.blocks[msg.id], outcome)
  ELSE IF msg.kind = "tx" /\ msg.id \in DOMAIN sv.mempool
  THEN send_tx(self, sv, msg.addr_from, sv.mempool[msg.id], outcome)
  ELSE NoSend(sv)

\* no mining address is configured on the nodes
handle_tx(sv, msg) ==
  NoSend([sv EXCEPT !.mempool = Put(@, msg.transaction.id, msg.transaction)])

\* the address a handler may send to, for the choice of what the send meets
ReplyTo(bytes) == bytes.data.addr_from

Failed(r) == r.send \in {"connect_failed", "write_failed"}

Charge(addr, r) ==
  IF Failed(r) /\ addr \in Nodes THEN [budget EXCEPT !.faults = @ + 1] ELSE budget

Event(n, event, addr, r) ==
  [node |-> n, event |-> event, status |-> r.status,
   sent_to |-> IF r.send = "none" THEN "" ELSE addr, send |-> r.send]

\* a handler that runs under one acquisition of the lock around each access
\* and ends with the connection: the message is consumed, the reply leaves
Finish(m, event, r) ==
  /\ inner' = [inner EXCEPT ![m.to] = r.sv]
  /\ wire' = (wire \ {m}) \cup r.sent
  /\ out' = Event(m.to, event, ReplyTo(m.bytes), r)
  /\ budget' = Charge(ReplyTo(m.bytes), r)
  /\ UNCHANGED handlers
  /\ UNCHANGED clivars
  /\ UNCHANGED lock

\* handle_connection: bytes_to_cmd(&buffer)? ends the connection on an error
Reject(m) ==
  /\ m \in wire
  /\ bytes_to_cmd(m.bytes).status # "ok"
  /\ wire' = wire \ {m}
  /\ out' = [NoOut EXCEPT !.node = m.to, !.event = "reject",
                          !.status = bytes_to_cmd(m.bytes).status]
  /\ UNCHANGED <<inner, handlers, budget>>
  /\ UNCHANGED clivars
  /\ UNCHANGED lock

HandleAddr(m) ==
  /\ m \in wire
  /\ bytes_to_cmd(m.bytes).cmd = "addr"
  /\ Finish(m, "handle_addr", handle_addr(inner[m.to], bytes_to_cmd(m.bytes).data))

HandleVersion(m, outcome) ==
  /\ m \in wire
  /\ bytes_to_cmd(m.bytes).cmd = "version"
  /\ outcome \in Outcomes(ReplyTo(m.bytes))
  /\ Finish(m, "handle_version",
            handle_version(m.to, inner[m.to], bytes_to_cmd(m.bytes).data, outcome))

HandleGetBlocks(m, outcome) ==
  /\ m \in wire
  /\ bytes_to_cmd(m.bytes).cmd = "getblocks"
  /\ outcome \in Outcomes(ReplyTo(m.bytes))
  /\ Finish(m, "handle_get_blocks",
            handle_get_blocks(m.to, inner[m.to], bytes_to_cmd(m.bytes).data, outcome))

HandleInv(m, outcome) ==
  /\ m \in wire
  /\ bytes_to_cmd(m.bytes).cmd = "inv"
  /\ outcome \in Outcomes(ReplyTo(m.bytes))
  /\ Finish(m, "handle_inv",
            handle_inv(m.to, inner[m.to], bytes_to_cmd(m.bytes).data, outcome))

HandleGetData(m, outcome) ==
  /\ m \in wire
  /\ bytes_to_cmd(m.bytes).cmd = "getdata"
  /\ outcome \in Outcomes(ReplyTo(m.bytes))
  /\ Finish(m, "handle_get_data",
            handle_get_data(m.to, inner[m.to], bytes_to_cmd(m.bytes).data, outcome))

HandleTx(m) ==
  /\ m \in wire
  /\ bytes_to_cmd(m.bytes).cmd = "tx"
  /\ Finish(m, "handle_tx", handle_tx(inner[m.to], bytes_to_cmd(m.bytes).data))

\* handle_block, one step per acquisition of the lock.  The thread keeps the
\* message and its copy of the queue between the steps.
Thread(n, msg, at, in_transit) ==
  [node |-> n, msg |-> msg, at |-> at, in_transit |-> in_transit]

\* self.add_block(msg.block)?
HandleBlockAddBlock(m) ==
  /\ m \in wire
  /\ bytes_to_cmd(m.bytes).cmd = "block"
  /\ Thread(m.to, bytes_to_cmd(m.bytes).data, "get_in_transit", << >>) \notin handlers
  /\ inner' = [inner EXCEPT ![m.to] = Server_add_block(@, bytes_to_cmd(m.bytes).data.block)]
  /\ wire' = wire \ {m}
  /\ handlers' = handlers \cup {Thread(m.to, bytes_to_cmd(m.bytes).data, "get_in_transit", << >>)}
  /\ out' = [NoOut EXCEPT !.node = m.to, !.event = "handle_block", !.status = "running"]
  /\ UNCHANGED budget
  /\ UNCHANGED clivars
  /\ UNCHANGED lock

\* let mut in_transit = self.get_in_transit()?; if in_transit.len() > 0
HandleBlockGetInTransit(th) ==
  /\ th \in handlers
  /\ th.at = "get_in_transit"
  /\ LET in_transit == get_in_transit(inner[th.node])
     IN  handlers' = (handlers \ {th}) \cup
           {Thread(th.node, th.msg,
                   IF Len(in_transit) > 0 THEN "send_get_data" ELSE "utxo_reindex", in_transit)}
  /\ out' = [NoOut EXCEPT !.node = th.node, !.event = "handle_block", !.status = "running"]
  /\ UNCHANGED <<inner, wire, budget>>
  /\ UNCHANGED clivars
  /\ UNCHANGED lock

\* self.send_get_data(&msg.addr_from, "block", block_hash)?
HandleBlockSendGetData(th, outcome) ==
  /\ th \in handlers
  /\ th.at = "send_get_data"
  /\ outcome \in Outcomes(th.msg.addr_from)
  /\ LET r == send_get_data(th.node, inner[th.node], th.msg.addr_from, "block",
                            th.in_transit[1], outcome)
     IN  /\ inner' = [inner EXCEPT ![th.node] = r.sv]
         /\ wire' = wire \cup r.sent
         /\ handlers' = (handlers \ {th}) \cup
              (IF r.status = "ok"
               THEN {Thread(th.node, th.msg, "replace_in_transit", th.in_transit)}
               ELSE {})
         /\ out' = Event(th.node, "handle_block", th.msg.addr_from, r)
         /\ budget' = Charge(th.msg.addr_from, r)
  /\ UNCHANGED clivars
  /\ UNCHANGED lock

\* in_transit.remove(0); self.replace_in_transit(in_transit)
HandleBlockReplaceInTransit(th) ==
  /\ th \in handlers
  /\ th.at = "replace_in_transit"
  /\ inner' = [inner EXCEPT ![th.node] = replace_in_transit(@, Tail(th.in_transit))]
  /\ handlers' = handlers \ {th}
  /\ out' = [NoOut EXCEPT !.node = th.node, !.event = "handle_block", !.status = "ok"]
  /\ UNCHANGED <<wire, budget>>
  /\ UNCHANGED clivars
  /\ UNCHANGED lock

\* self.utxo_reindex()?
HandleBlockReindex(th) ==
  /\ th \in handlers
  /\ th.at = "utxo_reindex"
  /\ inner' = [inner EXCEPT ![th.node] = utxo_reindex(@).sv]
  /\ handlers' = handlers \ {th}
  /\ out' = [NoOut EXCEPT !.node = th.node, !.event = "utxo_reindex",
                          !.status = utxo_reindex(inner[th.node]).status]
  /\ UNCHANGED <<wire, budget>>
  /\ UNCHANGED clivars
  /\ UNCHANGED lock

\* the handshake: a node sends its version to a peer once it has learned of it
SendVersion(n, addr, outcome) ==
  /\ n \in Nodes
  /\ addr \in inner[n].known_nodes \ {n}
  /\ <<n, addr>> \notin budget.versions
  /\ outcome \in Outcomes(addr)
  /\ LET r == send_version(n, inner[n], addr, outcome)
     IN  /\ inner' = [inner EXCEPT ![n] = r.sv]
         /\ wire' = wire \cup r.sent
         /\ out' = Event(n, "send_version", addr, r)
         /\ budget' = [Charge(addr, r) EXCEPT !.versions = @ \cup {<<n, addr>>}]
  /\ UNCHANGED handlers
  /\ UNCHANGED clivars
  /\ UNCHANGED lock

\* ------------------------------------------------------------ server: the network

\* The block a send of the command line mines on top of a ledger whose index
\* is up to date.
MinedBySend(store, from, to, amount, t) ==
  LET kv == find_UTXO(store, store.last)
      order == CHOOSE o \in Orders(OwnedKeys(kv, from)) : TRUE
      tx == new_UTXO(from, to, amount, find_spendable_outputs(kv, order, from, amount)).tx
  IN  new_block(<<new_coinbase(from, "reward"), tx>>, store.last, TARGET_HEXT, t)

RECURSIVE StoreOf(_)
StoreOf(blocks) ==
  IF blocks = << >> THEN EmptyStore
  ELSE ApplyAll(StoreOf(SubSeq(blocks, 1, Len(blocks) - 1)), StoreWrites(blocks[Len(blocks)]))

\* The ledger of the longer node: createblockchain A; send A B 40; send B A 40.
LongChain ==
  LET g == new_genesis_block(new_coinbase("A", GENESIS_COINBASE_DATA), 0)
      b1 == MinedBySend(StoreOf(<<g>>), "A", "B", 40, 0)
      b2 == MinedBySend(StoreOf(<<g, b1>>), "B", "A", 40, 0)
  IN  <<g, b1, b2>>

\* a node started on a directory that holds the ledger and its index
NodeOn(blocks) ==
  Server_new(StoreOf(blocks), StoreOf(blocks).last,
             reindex(OpenIndex(NoIndex), StoreOf(blocks), StoreOf(blocks).last).utxo)

\* what a peer can put on a connection: a message of each command, under
\* its own address or under a node's, about what the nodes hold, and tags
\* no node sends
Tip(sv) == sv.store.blocks[sv.current_hash]

Foreign ==
  { [tag |-> cmd_to_bytes("ping"), data |-> GetBlockmsg(GoneNode)],
    [tag |-> [i \in 1..CMD_LEN |-> IF i <= 5 THEN <<97, 100, 0, 100, 114>>[i] ELSE 0],
     data |-> AddrList({GoneNode})],
    [tag |-> << >>, data |-> NoPayload],
    serialize("addr", AddrList({GoneNode})),
    serialize("tx", Txmsg(GoneNode, Tip(inner[OtherNode]).transactions[1])),
    serialize("version", Versionmsg(GoneNode, VERSION, TARGET_HEXT + 1)),
    serialize("getblocks", GetBlockmsg(GoneNode)),
    serialize("getdata", GetDatamsg(GoneNode, "block", inner[OtherNode].current_hash)),
    serialize("block", Blockmsg(GoneNode, Tip(inner[KNOWN_NODE1]))),
    serialize("inv", Invmsg(KNOWN_NODE1, "block", get_block_hashs(inner[KNOWN_NODE1]))) }

Inject(n, bytes) ==
  /\ n \in Nodes
  /\ bytes \in Foreign
  /\ budget.injects < MaxInjects
  /\ [to |-> n, bytes |-> bytes] \notin wire
  /\ wire' = wire \cup {[to |-> n, bytes |-> bytes]}
  /\ budget' = [budget EXCEPT !.injects = @ + 1]
  /\ out' = [NoOut EXCEPT !.event = "inject"]
  /\ UNCHANGED <<inner, handlers>>
  /\ UNCHANGED clivars
  /\ UNCHANGED lock

\* two nodes up, the ledger of one a prefix of the other's
NodesUp ==
  /\ disk = EmptyStore
  /\ wal = << >>
  /\ utxo = NoIndex
  /\ pc = "idle"
  /\ bc = << >>
  /\ loc = NoLoc
  /\ res = NoRes
  /\ clock = 0
  /\ chain = << >>
  /\ \E long \in Nodes : \E k \in 1..(Len(LongChain) - 1) :
       inner = [n \in Nodes |-> IF n = long THEN NodeOn(LongChain)
                                ELSE NodeOn(SubSeq(LongChain, 1, k))]
  /\ handlers = {}
  /\ out = NoOut
  /\ lock = [n \in Nodes |-> {}]

InitNet ==
  /\ NodesUp
  /\ wire = {}
  /\ budget = NoBudget

\* a network whose connections do not fail
InitForeign ==
  /\ NodesUp
  /\ wire = {}
  /\ budget = [NoBudget EXCEPT !.faults = MaxFaults]

Sends == {"sent", "connect_failed", "write_failed"}

NextNet ==
  \/ \E m \in wire : \E o \in Sends : HandleVersion(m, o)
  \/ \E m \in wire : \E o \in Sends : HandleGetBlocks(m, o)
  \/ \E m \in wire : \E o \in Sends : HandleInv(m, o)
  \/ \E m \in wire : \E o \in Sends : HandleGetData(m, o)
  \/ \E m \in wire : HandleBlockAddBlock(m)
  \/ \E th \in handlers : HandleBlockGetInTransit(th)
  \/ \E th \in handlers : \E o \in Sends : HandleBlockSendGetData(th, o)
  \/ \E th \in handlers : HandleBlockReplaceInTransit(th)
  \/ \E th \in handlers : HandleBlockReindex(th)
  \/ \E n \in Nodes : \E addr \in inner[n].known_nodes : \E o \in Sends :
       SendVersion(n, addr, o)

SpecNet == InitNet /\ [][NextNet]_vars

\* the handlers of a node that peers send messages to, handshake apart
NextForeign ==
  \/ \E m \in wire : Reject(m)
  \/ \E m \in wire : HandleAddr(m)
  \/ \E m \in wire : \E o \in Sends : HandleVersion(m, o)
  \/ \E m \in wire : \E o \in Sends : HandleGetBlocks(m, o)
  \/ \E m \in wire : \E o \in Sends : HandleInv(m, o)
  \/ \E m \in wire : \E o \in Sends : HandleGetData(m, o)
  \/ \E m \in wire : HandleTx(m)
  \/ \E m \in wire : HandleBlockAddBlock(m)
  \/ \E th \in handlers : HandleBlockGetInTransit(th)
  \/ \E th \in handlers : \E o \in Sends : HandleBlockSendGetData(th, o)
  \/ \E th \in handlers : HandleBlockReplaceInTransit(th)
  \/ \E th \in handlers : HandleBlockReindex(th)
  \/ \E n \in Nodes : \E bytes \in Foreign : Inject(n, bytes)

SpecForeign == InitForeign /\ [][NextForeign]_vars

\* ---------------------------------------------------------- the state lock
\* The handlers at the grain of self.inner.lock(): a handler waits for the
\* Mutex (lock_x), holds it for the statement x that took it, and releases it
\* when the guard, a temporary of that statement, is dropped.  TcpStream::connect
\* and stream.write are the position "connect".

\* the handlers that run on a connection
Programs == {"handle_addr", "handle_inv", "handle_get_data", "handle_block"}

\* the positions that take the lock, and the ones inside the statement that took it
Accesses ==
  {"add_nodes", "remove_node", "replace_in_transit", "get_block", "add_block",
   "get_in_transit", "utxo_reindex"}

LockAt == {"lock_add_nodes", "lock_remove_node", "lock_replace_in_transit",
           "lock_get_block", "lock_add_block", "lock_get_in_transit",
           "lock_utxo_reindex"}

Waiting(access) ==
  CASE access = "add_nodes" -> "lock_add_nodes"
    [] access = "remove_node" -> "lock_remove_node"
    [] access = "replace_in_transit" -> "lock_replace_in_transit"
    [] access = "get_block" -> "lock_get_block"
    [] access = "add_block" -> "lock_add_block"
    [] access = "get_in_transit" -> "lock_get_in_transit"
    [] access = "utxo_reindex" -> "lock_utxo_reindex"

Locked(at) == CHOOSE access \in Accesses : Waiting(access) = at

\* a handler thread: the connection it serves, its handler, its position and locals
Task(m, handler, msg, at, in_transit, nodes) ==
  [node |-> m.to, id |-> m, handler |-> handler, msg |-> msg, at |-> at,
   in_transit |-> in_transit, nodes |-> nodes]

\* for node in msg: the addresses in the order of the Vec
RECURSIVE Ordered(_)
Ordered(S) ==
  IF S = {} THEN << >>
  ELSE LET x == CHOOSE y \in S : TRUE IN <<x>> \o Ordered(S \ {x})

\* the first position of the handler of a decoded message
Dispatch(m) ==
  LET d == bytes_to_cmd(m.bytes)
  IN  CASE d.cmd = "addr" ->
             Task(m, "handle_addr", d.data,
                  IF d.data.addrs = {} THEN "done" ELSE "lock_add_nodes", << >>,
                  Ordered(d.data.addrs))
        [] d.cmd = "inv" ->
             Task(m, "handle_inv", d.data,
                  IF d.data.kind = "block" /\ d.data.items # << >>
                  THEN "lock_replace_in_transit" ELSE "done", d.data.items, << >>)
        [] d.cmd = "getdata" ->
             Task(m, "handle_get_data", d.data, "lock_get_block", << >>, << >>)
        [] d.cmd = "block" ->
             Task(m, "handle_block", d.data, "lock_add_block", << >>, << >>)

\* the thread moves on; a thread that returned is gone
Move(th, next) ==
  handlers' = (handlers \ {th}) \cup (IF next.at = "done" THEN {} ELSE {next})

\* handle_connection: read the stream, decode, dispatch
LkAccept(m) ==
  /\ m \in wire
  /\ m.to \in Nodes
  /\ bytes_to_cmd(m.bytes).status = "ok"
  /\ bytes_to_cmd(m.bytes).cmd \in {"addr", "inv", "getdata", "block"}
  /\ \A th \in handlers : th.id # m
  /\ wire' = wire \ {m}
  /\ handlers' = handlers \cup (IF Dispatch(m).at = "done" THEN {} ELSE {Dispatch(m)})
  /\ out' = [NoOut EXCEPT !.node = m.to, !.event = "accept", !.status = "running"]
  /\ UNCHANGED <<inner, budget, lock>>
  /\ UNCHANGED clivars

\* self.inner.lock(): blocks until the Mutex is free
LkAcquire(th) ==
  /\ th \in handlers
  /\ th.at \in LockAt
  /\ lock[th.node] = {}
  /\ lock' = [lock EXCEPT ![th.node] = {th.id}]
  /\ Move(th, [th EXCEPT !.at = Locked(th.at)])
  /\ out' = [NoOut EXCEPT !.node = th.node, !.event = "lock", !.status = "running"]
  /\ UNCHANGED <<inner, wire, budget>>
  /\ UNCHANGED clivars

\* what the statement that holds the guard does to ServerInner
Access(th, sv) ==
  CASE th.at = "add_nodes" -> add_nodes(sv, Head(th.nodes))
    [] th.at = "remove_node" -> remove_node(sv, th.msg.addr_from)
    [] th.at = "replace_in_transit" -> replace_in_transit(sv, Tail(th.in_transit))
    [] th.at = "add_block" -> Server_add_block(sv, th.msg.block)
    [] th.at = "utxo_reindex" -> utxo_reindex(sv).sv
    [] OTHER -> sv

\* where the handler goes once the guard is dropped
Continue(th, sv) ==
  CASE th.at = "add_nodes" ->
         [th EXCEPT !.nodes = Tail(@),
                    !.at = IF Tail(th.nodes) = << >> THEN "done" ELSE "lock_add_nodes"]
    [] th.at = "remove_node" ->
         [th EXCEPT !.at = IF th.handler = "handle_block"
                           THEN "lock_replace_in_transit" ELSE "done"]
    [] th.at = "replace_in_transit" ->
         [th EXCEPT !.at = IF th.handler = "handle_inv" THEN "connect" ELSE "done"]
    [] th.at = "get_block" ->
         [th EXCEPT !.at = IF th.msg.kind = "block" /\ th.msg.id \in DOMAIN sv.store.blocks
                           THEN "connect" ELSE "done"]
    [] th.at = "add_block" -> [th EXCEPT !.at = "lock_get_in_transit"]
    [] th.at = "get_in_transit" ->
         [th EXCEPT !.in_transit = get_in_transit(sv),
                    !.at = IF Len(get_in_transit(sv)) > 0
                           THEN "connect" ELSE "lock_utxo_reindex"]
    [] th.at = "utxo_reindex" -> [th EXCEPT !.at = "done"]

\* the guard kept in a local that lives until the handler returns
Unlock_AfterSend(th) ==
  IF Continue(th, inner[th.node]).at = "done"
  THEN [lock EXCEPT ![th.node] = @ \ {th.id}]
  ELSE lock

\* the end of the statement: the access is made and the MutexGuard dropped
Unlock(th) == [lock EXCEPT ![th.node] = @ \ {th.id}]

LkRelease(th) ==
  /\ th \in handlers
  /\ th.at \in Accesses
  /\ th.id \in lock[th.node]
  /\ inner' = [inner EXCEPT ![th.node] = Access(th, @)]
  /\ lock' = Unlock(th)
  /\ Move(th, Continue(th, inner[th.node]))
  /\ out' = [NoOut EXCEPT !.node = th.node, !.event = th.at, !.status = "running"]
  /\ UNCHANGED <<wire, budget>>
  /\ UNCHANGED clivars

\* the message the handler sends from the position "connect"
Sending(th, outcome) ==
  CASE th.handler = "handle_inv" ->
         send_get_data(th.node, inner[th.node], th.msg.addr_from, "block",
                       Head(th.msg.items), outcome)
    [] th.handler = "handle_block" ->
         send_get_data(th.node, inner[th.node], th.msg.addr_from, "block",
                       th.in_transit[1], outcome)
    [] th.handler = "handle_get_data" ->
         send_block(th.node, inner[th.node], th.msg.addr_from,
                    inner[th.node].store.blocks[th.msg.id], outcome)

\* send_data up to the end of the write: TcpStream::connect(addr), stream.write(data)
LkConnect(th, outcome) ==
  /\ th \in handlers
  /\ th.at = "connect"
  /\ outcome \in Outcomes(th.msg.addr_from)
  /\ LET r == Sending(th, outcome)
     IN  /\ wire' = wire \cup r.sent
         /\ budget' = Charge(th.msg.addr_from, r)
         /\ out' = Event(th.node, th.handler, th.msg.addr_from, r)
         /\ Move(th, [th EXCEPT !.at =
                        IF r.send = "connect_failed" THEN "lock_remove_node"
                        ELSE IF r.status # "ok" THEN "done"
                        ELSE IF th.handler = "handle_block" THEN "lock_replace_in_transit"
                        ELSE "done"])
  /\ UNCHANGED <<inner, lock>>
  /\ UNCHANGED clivars

\* the node with the longer ledger, and its peer
Ahead == CHOOSE n \in Nodes : \A o \in Nodes :
           Cardinality(DOMAIN inner[n].store.blocks) >= Cardinality(DOMAIN inner[o].store.blocks)

Behind == CHOOSE n \in Nodes : n # Ahead

\* connections accepted and not yet read: the inventory of the longer node and
\* a list of addresses
InitLock ==
  /\ NodesUp
  /\ wire = {[to |-> Behind, bytes |-> serialize("inv", Invmsg(Ahead, "block", get_block_hashs(inner[Ahead])))],
             [to |-> Behind, bytes |-> serialize("addr", AddrList({Ahead, GoneNode}))]}
  /\ budget = NoBudget

NextLock ==
  \/ \E m \in wire : LkAccept(m)
  \/ \E th \in handlers : LkAcquire(th)
  \/ \E th \in handlers : LkRelease(th)
  \/ \E th \in handlers : \E o \in Sends : LkConnect(th, o)

SpecLock == InitLock /\ [][NextLock]_vars

\* ------------------------------------------------------------ properties
RECURSIVE Reverse(_)
Reverse(s) == IF s = << >> THEN << >> ELSE Append(Reverse(Tail(s)), Head(s))

\* The index obtained from the empty index by update over blocks, oldest first.
RECURSIVE FoldUpdate(_, _)
FoldUpdate(blocks, r) ==
  IF blocks = << >> \/ r.status # "ok" THEN r
  ELSE FoldUpdate(Tail(blocks), update(r.utxo, Head(blocks)))

EmptyIndex == [status |-> "ok", utxo |-> [exists |-> TRUE, kv |-> EmptyMap]]

\* The transactions of the appended blocks, oldest first.
ChainTxs == ConcatTxs(chain)

\* Some input of the chain references output vout of transaction txid.
Referenced(txid, vout) ==
  \E p \in 1..Len(ChainTxs) : \E i \in 1..Len(ChainTxs[p].vin) :
     /\ ChainTxs[p].vin[i].txid = txid
     /\ ChainTxs[p].vin[i].vout = vout

RECURSIVE UnreferencedValue(_, _, _)
UnreferencedValue(tx, index, owner) ==
  IF index >= Len(tx.vout) THEN 0
  ELSE (IF can_be_unlock_with(tx.vout[index + 1], owner) /\ ~Referenced(tx.id, index)
        THEN tx.vout[index + 1].value ELSE 0)
       + UnreferencedValue(tx, index + 1, owner)

\* The balance of owner by a direct scan of the whole chain.
RECURSIVE ScanBalance(_, _)
ScanBalance(txs, owner) ==
  IF txs = << >> THEN 0
  ELSE UnreferencedValue(Head(txs), 0, owner) + ScanBalance(Tail(txs), owner)

\* C1: the index Reindex() produces over a chain built by CreateGenesis and
\* AddBlock calls equals, key for key and output list for output list, the
\* index obtained from the empty index by Update(block) over the blocks in
\* append order.
C1_ReindexEqualsUpdateFold ==
  (pc = "done" /\ res.cmd \in {"reindex", "create"} /\ res.status = "ok")
    => /\ FoldUpdate(chain, EmptyIndex).status = "ok"
       /\ utxo.kv = FoldUpdate(chain, EmptyIndex).utxo.kv

\* C2: after any sequence of sends on a created ledger, for every address the
\* sum of the values the index holds for it equals the balance a direct scan
\* of the chain gives (outputs of the address no input of the chain references).
C2_IndexBalanceEqualsChainScan ==
  (pc = "done" /\ res.cmd = "send" /\ res.status = "sent")
    => \A a \in Addresses : getbalance(utxo, a) = ScanBalance(ChainTxs, a)

\* C3: on a ledger built by CreateGenesis and n AddBlock calls, Iterate()
\* starts at the current tip and yields exactly the n+1 blocks in reverse
\* append order, each block's predecessor hash being the hash of the block
\* yielded next, ending with the genesis block (predecessor hash empty); the
\* traversal is finite.
C3_IterateYieldsChainBackwards ==
  (pc = "done" /\ res.cmd = "printchain" /\ res.open = "ok")
    => /\ res.status = "ok"
       /\ Len(res.blocks) = Len(chain)
       /\ res.blocks = Reverse(chain)
       /\ res.blocks[1].hash = View.last
       /\ \A i \in 1..(Len(res.blocks) - 1) :
            res.blocks[i].prev_block_hash = res.blocks[i + 1].hash
       /\ res.blocks[Len(res.blocks)].prev_block_hash = << >>
       /\ res.blocks[Len(res.blocks)].height = 0

C3_Witness ==
  /\ pc = "done"
  /\ res.cmd = "printchain"
  /\ Len(res.blocks) >= 3

\* The blocks the program has mined: those of the store and the one in hand.
MinedBlocks ==
  {View.blocks[h] : h \in DOMAIN View.blocks}
    \cup (IF loc.block = NoBlock THEN {} ELSE {loc.block})

ZeroPrefix(h) == \A i \in 1..TARGET_HEXT : h[i] = 0

\* C4: every mined block stores as its hash the digest of (predecessor hash,
\* transactions, timestamp, difficulty, final nonce); the first TARGET_HEXT hex
\* characters of the hash are '0'; the nonce is the first one, counting from
\* 0, whose digest has that prefix.
C4_MinedHashMeetsTarget ==
  \A b \in MinedBlocks :
    /\ b.hash = Sha256Hex(preapre_hash_data(b))
    /\ b.hash[TARGET_HEXT + 1][4] = TARGET_HEXT
    /\ ZeroPrefix(b.hash)
    /\ b.nonce >= 0
    /\ \A n \in 0..(b.nonce - 1) :
         ~ZeroPrefix(Sha256Hex(preapre_hash_data([b EXCEPT !.nonce = n])))

\* A block appended by AddBlock whose nonce search went past nonce 0.
C4_Witness ==
  \E b \in MinedBlocks : b.nonce >= 1 /\ b.prev_block_hash # << >>

\* C5: in every state of the block store, between the two writes of AddBlock
\* and of CreateGenesis and after a crash at any point, the tip pointer "LAST",
\* when present, names a hash under which a block is stored.
C5_TipNamesStoredBlock ==
  /\ View.last = << >> \/ View.last \in DOMAIN View.blocks
  /\ disk.last = << >> \/ disk.last \in DOMAIN disk.blocks

\* A crash between the two writes of AddBlock: the block is on disk and the
\* pointer still names its predecessor.
C5_Witness ==
  /\ pc = "crashed"
  /\ disk.last # << >>
  /\ \E h \in DOMAIN disk.blocks : disk.blocks[h].prev_block_hash = disk.last

\* C6: after CreateGenesis(rewardAddress), whatever the store held before, the
\* store holds exactly one block, with empty predecessor hash, height 0 and
\* exactly one coinbase transaction paying rewardAddress, stored under its own
\* hash, and the tip pointer equals that hash; all of it flushed.
C6_CreateLeavesOnlyGenesis ==
  (pc = "create_reindex")
    => /\ wal = << >>
       /\ disk.last # << >>
       /\ DOMAIN disk.blocks = {disk.last}
       /\ LET g == disk.blocks[disk.last]
          IN  /\ g.hash = disk.last
              /\ g.prev_block_hash = << >>
              /\ g.height = 0
              /\ Len(g.transactions) = 1
              /\ is_coinbase(g.transactions[1])
              /\ g.transactions[1].vout = << TXOutput(Reward, loc.to) >>
              /\ bc = g.hash

\* A store that held a chain of several blocks is created anew.
C6_Witness ==
  /\ pc = "create_reindex"
  /\ Cardinality(DOMAIN utxo.kv) >= 2

\* C7: Open() on a store without the "LAST" pointer returns a NotFound error
\* to its caller, without crashing; on a store with the pointer it returns a
\* ledger whose current tip is the stored pointer.
C7_OpenWithoutTipReturnsNotFound ==
  (pc = "done" /\ res.cmd \in {"getbalance", "printchain", "reindex"})
    => IF View.last = << >> THEN res.open = "NotFound"
       ELSE res.open = "ok" /\ bc = View.last

\* C8: NewSpend fails with InsufficientFunds carrying the accumulated balance
\* whenever the amount FindSpendableOutputs accumulated is below the amount
\* asked for; it then builds no transaction and changes neither the ledger
\* nor the index.
C8_InsufficientFundsChangesNothing ==
  [][(pc = "send_build" /\ loc.acc_v.acc < loc.amount)
       => /\ pc' = "done"
          /\ res'.cmd = "send"
          /\ res'.status = "InsufficientFunds"
          /\ res'.value = loc.acc_v.acc
          /\ res'.tx = NoTx
          /\ disk' = disk
          /\ wal' = wal
          /\ utxo' = utxo
          /\ chain' = chain]_vars

\* A send of more than the sender's positive balance has failed.
C8_Witness ==
  /\ pc = "done"
  /\ res.cmd = "send"
  /\ res.status = "InsufficientFunds"
  /\ res.value > 0

\* The (txid, output index) pairs of a selection, in order.
RECURSIVE SelectedPairs(_)
SelectedPairs(sel) ==
  IF sel = << >> THEN << >>
  ELSE [i \in 1..Len(Head(sel)[2]) |-> <<Head(sel)[1], Head(sel)[2][i]>>]
       \o SelectedPairs(Tail(sel))

RECURSIVE SumValues(_)
SumValues(outs) == IF outs = << >> THEN 0 ELSE Head(outs).value + SumValues(Tail(outs))

\* C9: a successful NewSpend returns a transaction with exactly one input per
\* selected (txid, output index) pair, a first output of amount to the
\* recipient and a second output of accumulated - amount to the sender iff
\* accumulated > amount; its output values sum to the accumulated value.
C9_SpendShape ==
  (pc = "send_put_block")
    => LET tx == res.tx
           acc == loc.acc_v.acc
       IN  /\ res.cmd = "new_UTXO"
           /\ [i \in 1..Len(tx.vin) |-> <<tx.vin[i].txid, tx.vin[i].vout>>]
                = SelectedPairs(loc.acc_v.outs)
           /\ tx.vout[1] = TXOutput(loc.amount, loc.to)
           /\ IF acc > loc.amount
              THEN Len(tx.vout) = 2 /\ tx.vout[2] = TXOutput(acc - loc.amount, loc.from)
              ELSE Len(tx.vout) = 1
           /\ SumValues(tx.vout) = acc
           /\ tx = loc.block.transactions[2]

\* A spend of two selected outputs with change.
C9_Witness ==
  /\ pc = "send_put_block"
  /\ Len(res.tx.vin) >= 2
  /\ Len(res.tx.vout) = 2

\* The signature of a digest under a private key.
Signature(private_key, digest) == <<"signature", private_key, digest>>

\* C10: after a successful Sign of a non-coinbase transaction whose previous
\* transactions are all present, every input of the transaction carries the
\* signature over its own per-input digest; Sign of a coinbase transaction
\* changes nothing.
C10_SignStoresSignatures ==
  (pc = "done" /\ res.cmd = "sign" /\ res.status = "ok")
    => IF is_coinbase(res.tx) THEN res.signed = res.tx
       ELSE \A i \in 1..Len(res.signed.vin) :
              res.signed.vin[i].signature
                = Signature(res.key, sign_digest(res.tx, i, res.prev_txs))

\* C11: a transaction's id is fixed when the transaction is built, computed
\* over the unsigned transaction, and Sign never changes it: the id, the
\* referenced (txid, index) pairs and the outputs are the same before and
\* after Sign.
C11_SignKeepsIdentity ==
  (pc = "done" /\ res.cmd = "sign")
    => /\ res.tx.id = Sha256([res.tx EXCEPT !.id = << >>])
       /\ \A i \in 1..Len(res.tx.vin) : res.tx.vin[i].signature = << >>
       /\ res.signed.id = res.tx.id
       /\ [i \in 1..Len(res.signed.vin) |-> <<res.signed.vin[i].txid, res.signed.vin[i].vout>>]
            = [i \in 1..Len(res.tx.vin) |-> <<res.tx.vin[i].txid, res.tx.vin[i].vout>>]
       /\ res.signed.vout = res.tx.vout

\* Sign has run its loop over a spend of two inputs.
C11_Witness ==
  /\ pc = "done"
  /\ res.cmd = "sign"
  /\ res.status = "ok"
  /\ ~is_coinbase(res.tx)
  /\ Len(res.tx.vin) >= 2

\* C12: createLedger(rewardAddress) completes successfully from any prior
\* storage state, also when no block store and no index store exist yet, and
\* leaves an index that holds exactly the genesis coinbase output, so that
\* getBalance(rewardAddress) is the reward of 100.
C12_CreateThenBalanceIsReward ==
  (pc = "done" /\ res.cmd = "create")
    => /\ res.status = "ok"
       /\ utxo.exists
       /\ DOMAIN utxo.kv = {chain[1].transactions[1].id}
       /\ utxo.kv[chain[1].transactions[1].id] = << TXOutput(Reward, res.key) >>
       /\ getbalance(utxo, res.key) = 100

\* The balance of owner over the index without the entries of the given ids.
BalanceWithout(ids, owner) == BalanceOver(utxo.kv, (DOMAIN utxo.kv) \ ids, owner)

\* The send that has just run is send(A, B, 40) on a ledger that held the
\* genesis block alone, with its reward paid to A.
ScenarioB ==
  /\ pc = "done"
  /\ res.cmd = "send"
  /\ Len(chain) = 2
  /\ chain[2] = loc.block
  /\ chain[1].transactions[1].vout = << TXOutput(Reward, "A") >>
  /\ loc.from = "A"
  /\ loc.to = "B"
  /\ loc.amount = 40

C17_AddBlockAppends ==
  (pc = "send_update")
    => LET b == loc.block
           T == chain[Len(chain) - 1].hash
       IN  /\ Len(chain) >= 2
           /\ b = chain[Len(chain)]
           /\ b.prev_block_hash = T
           /\ b.transactions = << new_coinbase(loc.from, "reward"), res.tx >>
           /\ b.hash \in DOMAIN View.blocks
           /\ View.blocks[b.hash] = b
           /\ View.last = b.hash
           /\ bc = b.hash
           /\ iter(View, bc).finite
           /\ iter(View, bc).blocks = <<b>> \o iter(View, T).blocks
           /\ Len(iter(View, bc).blocks) = Len(chain)

\* AddBlock has returned on a ledger that already held an appended block.
C17_Witness ==
  /\ pc = "send_update"
  /\ Len(chain) >= 3

\* C18: the ledger is append-only: no step of AddBlock, Iterate,
\* FindTransaction, Reindex or Update deletes or modifies a block of the block
\* store; only CreateGenesis discards the store.
C18_AppendOnly ==
  [][(pc' # "create_put_block")
       => \A h \in DOMAIN View.blocks :
            /\ h \in DOMAIN View'.blocks
            /\ View'.blocks[h] = View.blocks[h]]_vars

\* A reindex and a signed spend on a ledger of three blocks, all still stored.
C18_Witness ==
  /\ pc = "done"
  /\ res.cmd \in {"reindex", "sign"}
  /\ Len(chain) >= 3
  /\ \A i \in 1..Len(chain) : chain[i].hash \in DOMAIN View.blocks

\* The transaction of the chain with the given id, when exactly one has it.
UniqueId(id) == Cardinality({p \in 1..Len(ChainTxs) : ChainTxs[p].id = id}) = 1

TxOfId(id) == ChainTxs[CHOOSE p \in 1..Len(ChainTxs) : ChainTxs[p].id = id]

\* The outputs of tx, from index on, that no input of the chain references.
RECURSIVE UnspentFrom(_, _)
UnspentFrom(tx, index) ==
  IF index >= Len(tx.vout) THEN << >>
  ELSE (IF Referenced(tx.id, index) THEN << >> ELSE << tx.vout[index + 1] >>)
       \o UnspentFrom(tx, index + 1)

\* C19: after Update(block), for every non-coinbase input (txid, i) of the
\* block the entry of txid holds exactly the outputs of txid no input has
\* spent (the entry is gone when there is none), also when several outputs of
\* one txid are spent by different inputs; no key maps to an empty list; each
\* transaction of the block has its full output list under its own id.
\* (Stated for the ids that one transaction of the chain carries.)
C19_UpdateRemovesSpentOutputs ==
  (pc = "done" /\ res.cmd = "send" /\ res.status = "sent")
    => LET txs == loc.block.transactions
       IN  /\ \A t \in 1..Len(txs) : \A i \in 1..Len(txs[t].vin) :
                (~is_coinbase(txs[t]) /\ UniqueId(txs[t].vin[i].txid))
                  => LET txid == txs[t].vin[i].txid
                         left == UnspentFrom(TxOfId(txid), 0)
                     IN  IF left = << >> THEN txid \notin DOMAIN utxo.kv
                         ELSE txid \in DOMAIN utxo.kv /\ utxo.kv[txid] = left
           /\ \A k \in DOMAIN utxo.kv : utxo.kv[k] # << >>
           /\ \A t \in 1..Len(txs) :
                UniqueId(txs[t].id)
                  => txs[t].id \in DOMAIN utxo.kv /\ utxo.kv[txs[t].id] = txs[t].vout

\* A step in which Update or Reindex ends without completing.
IndexOpFails ==
  /\ pc # "done"
  /\ pc' = "done"
  /\ \/ res'.cmd \in {"update", "reindex", "create"} /\ res'.status \notin {"ok", "none"}
     \/ pc = "send_update" /\ res'.status # "sent"

\* C20: when Update(block) or Reindex() cannot complete (an input of the block
\* references a txid that has no entry in the index, or the index store cannot
\* be wiped), the operation returns an error to its caller and the index is
\* exactly as it was before the call.
C20_FailedIndexOpChangesNothing ==
  [][IndexOpFails => (res'.status = "err" /\ utxo'.kv = utxo.kv)]_vars

\* C15: a send to another address whose connect or write fails removes that
\* address from the sender's peer registry, leaves every other peer in it,
\* and the handler that issued the send sees success.
C15_FailedSendRemovesPeer ==
  [][Failed(out') =>
       /\ out'.status = "ok"
       /\ inner'[out'.node].known_nodes = inner[out'.node].known_nodes \ {out'.sent_to}]_vars

\* the tag without its zero padding, the zero bytes at its end
RECURSIVE StripPadding(_)
StripPadding(tag) ==
  IF tag # << >> /\ tag[Len(tag)] = 0
  THEN StripPadding(SubSeq(tag, 1, Len(tag) - 1))
  ELSE tag

\* the handler and the payload of each command of the protocol
HandlerOf ==
  [c \in Commands |->
     CASE c = "addr" -> [event |-> "handle_addr", schema |-> "Vec<String>"]
       [] c = "block" -> [event |-> "handle_block", schema |-> "Blockmsg"]
       [] c = "inv" -> [event |-> "handle_inv", schema |-> "Invmsg"]
       [] c = "getblocks" -> [event |-> "handle_get_blocks", schema |-> "GetBlockmsg"]
       [] c = "getdata" -> [event |-> "handle_get_data", schema |-> "GetDatamsg"]
       [] c = "tx" -> [event |-> "handle_tx", schema |-> "Txmsg"]
       [] c = "version" -> [event |-> "handle_version", schema |-> "Versionmsg"]]

\* C16: a message read from a connection whose 12-byte tag, zero padding
\* stripped, is none of the seven commands ends in UnknownCommand with no
\* handler run and the node's state as it was; a message tagged with one of
\* the seven, carrying that command's payload, goes to that command's handler.
C16_UnknownTagRejected ==
  [][\A m \in wire \ wire' :
       Len(m.bytes.tag) = CMD_LEN =>
         IF \E c \in Commands : StripPadding(m.bytes.tag) = as_bytes(c)
         THEN \A c \in Commands :
                (StripPadding(m.bytes.tag) = as_bytes(c) /\ m.bytes.data.schema = HandlerOf[c].schema)
                  => (out'.event = HandlerOf[c].event /\ out'.node = m.to)
         ELSE /\ out'.event = "reject"
              /\ out'.status = "UnknownCommand"
              /\ inner' = inner
              /\ handlers' = handlers]_vars

\* the blocks a walk from the node's tip yields, tip first
Ledger(sv) == iter(sv.store, sv.current_hash).blocks

\* C14: when the node that asked for the blocks of a longer ledger has
\* handled the last block of the round, with no connection failed on the way
\* and nothing left in flight, it stores the blocks the other node stores, its
\* tip is the other node's tip, its queue of blocks in transit is empty, and
\* its index is what a reindex over its ledger gives.
C14_SyncRoundConverges ==
  \A n \in Nodes : \A p \in Nodes \ {n} :
    (/\ out.event = "utxo_reindex"
     /\ out.node = n
     /\ budget.faults = 0
     /\ wire = {}
     /\ handlers = {})
    => /\ DOMAIN inner[n].store.blocks = DOMAIN inner[p].store.blocks
       /\ inner[n].store.last = inner[p].store.last
       /\ inner[n].current_hash = inner[p].current_hash
       /\ Ledger(inner[n]) = Ledger(inner[p])
       /\ inner[n].blocks_in_transit = << >>
       /\ inner[n].utxo.kv = find_UTXO(inner[n].store, inner[n].store.last)

\* some input of the transaction names a transaction that is not among prev_TXs
MissingPrev(tx, prev_TXs) == \E i \in 1..Len(tx.vin) : tx.vin[i].txid \notin DOMAIN prev_TXs

\* the ids of the transactions a walk from the tip finds
FoundIds == {ConcatTxs(iter(View, bc).blocks)[i].id : i \in 1..Len(ConcatTxs(iter(View, bc).blocks))}

\* C21: Sign of a spend one of whose inputs names a previous transaction
\* missing from prevTxs returns an error, without a crash and with the
\* transaction as it was; sign_transaction on the ledger returns NotFound
\* when the chain does not hold a transaction an input names.
C21_SignWithoutPrevTxIsError ==
  (pc = "done" /\ res.cmd = "sign" /\ ~is_coinbase(res.tx))
    => /\ (res.open = "none" /\ MissingPrev(res.tx, res.prev_txs))
            => (res.status = "err" /\ res.signed = res.tx)
       /\ (res.open = "ok" /\ \E i \in 1..Len(res.tx.vin) : res.tx.vin[i].txid \notin FoundIds)
            => (res.status = "NotFound" /\ res.signed = res.tx)

\* the queue of blocks in transit of a node
Queue(n) == inner[n].blocks_in_transit

\* the getdata message a node sends for a block hash
GetDataFor(n, addr, id) == [to |-> addr, bytes |-> serialize("getdata", GetDatamsg(n, "block", id))]

\* C22: a node that receives a block first appends it; if its queue of
\* blocks in transit is not empty it sends one getdata for the hash at the
\* head of the queue to the sender of the block and takes exactly that hash
\* off the queue; if the queue is empty it sends nothing and reindexes, so a
\* reindex runs only while no hash is queued.
C22_BlockHandlerPopsHead ==
  [][/\ \A m \in wire \ wire' :
          bytes_to_cmd(m.bytes).cmd = "block"
            => /\ m.bytes.data.block.hash \in DOMAIN inner'[m.to].store.blocks
               /\ inner'[m.to].store.last = m.bytes.data.block.hash
               /\ Queue(m.to)' = Queue(m.to)
               /\ wire' = wire \ {m}
     /\ \A th \in handlers \ handlers' :
          /\ th.at = "send_get_data"
               => /\ Queue(th.node) # << >>
                  /\ out'.send = "sent"
                       => wire' = wire \cup {GetDataFor(th.node, th.msg.addr_from, Head(Queue(th.node)))}
          /\ th.at = "replace_in_transit"
               => /\ Queue(th.node) # << >>
                  /\ Queue(th.node)' = Tail(Queue(th.node))
                  /\ wire' = wire
          /\ th.at = "utxo_reindex"
               => /\ Queue(th.node) = << >>
                  /\ wire' = wire
                  /\ inner'[th.node].utxo.kv
                       = find_UTXO(inner[th.node].store, inner[th.node].current_hash)]_vars

\* the block handlers of a node that are about to request the hash id
AboutToRequest(n, id) ==
  {th \in handlers : th.node = n /\ th.at = "send_get_data" /\ th.in_transit[1] = id}

\* C24: however the block handlers of a node interleave, a hash of the
\* queue is requested once and none is lost: no handler requests the very
\* block it is handling, which was requested before it could arrive, and
\* when the round is over, with no connection failed, no hash is left in
\* the queue.
C24_EachHashRequestedOnce ==
  budget.faults = 0 =>
    \A n \in Nodes :
      /\ \A th \in handlers : th \notin AboutToRequest(n, th.msg.block.hash)
      /\ (wire = {} /\ handlers = {} /\ out.event = "utxo_reindex" /\ out.node = n)
           => inner[n].blocks_in_transit = << >>

\* C25: the genesis block has height 0 and a block appended by AddBlock has
\* the height of its predecessor plus 1, so the height of the tip is the
\* number of blocks appended after the genesis block.
C25_HeightsCountPosition ==
  /\ \A i \in 1..Len(chain) :
       chain[i].height = IF i = 1 THEN 0 ELSE chain[i - 1].height + 1
  /\ \A h \in DOMAIN View.blocks :
       IF View.blocks[h].prev_block_hash = << >>
       THEN View.blocks[h].height = 0
       ELSE View.blocks[h].prev_block_hash \in DOMAIN View.blocks
              => View.blocks[h].height
                   = View.blocks[View.blocks[h].prev_block_hash].height + 1
  /\ (chain # << >> /\ View.last \in DOMAIN View.blocks)
       => View.blocks[View.last].height = Len(iter(View, View.last).blocks) - 1

\* C26: no two transactions of the chain share an id, the reward coinbase
\* of each send included, so an index key and a result of FindTransaction
\* stand for one transaction of the chain.
C26_TransactionIdsUnique ==
  /\ \A p \in 1..Len(ChainTxs) : \A q \in 1..Len(ChainTxs) :
       ChainTxs[p].id = ChainTxs[q].id => p = q
  /\ \A id \in DOMAIN utxo.kv :
       Cardinality({p \in 1..Len(ChainTxs) : ChainTxs[p].id = id}) <= 1

\* the values of the outputs the inputs name, summed
RECURSIVE ReferencedValue(_)
ReferencedValue(vin) ==
  IF vin = << >> THEN 0
  ELSE TxOfId(Head(vin).txid).vout[Head(vin).vout + 1].value + ReferencedValue(Tail(vin))

\* C27: a NewSpend that succeeds, whatever the amount asked for, returns a
\* transaction with at least one input, every output strictly positive,
\* and outputs that sum to no more than the outputs its inputs name.
C27_SpendCreatesNoValue ==
  (pc = "send_put_block")
    => /\ Len(res.tx.vin) >= 1
       /\ \A i \in 1..Len(res.tx.vout) : res.tx.vout[i].value > 0
       /\ SumValues(res.tx.vout) <= ReferencedValue(res.tx.vin)

====
